---- MODULE Spec2Model ----
(***************************************************************************)
(* A model of the file-system task board: the task store of               *)
(* task_manager.py (records kept as markdown documents in one directory    *)
(* per status, the activity log) and the notification ledger of            *)
(* notifications.py (one shared markdown document).                        *)
(*                                                                         *)
(* Text is modelled as what the code reads and writes.  A file is a        *)
(* sequence of lines; a multi-line string (a description, a message) is    *)
(* the sequence of its lines, the empty string being <<"">>.  A            *)
(* frontmatter line "key: value" is the pair <<key, value>>.  The regular  *)
(* expressions of the code are evaluated on these lines.                   *)
(***************************************************************************)
EXTENDS Integers, Sequences, FiniteSets, TLC

\* ------------------------------------------------------------------ bounds
MaxOps == 3        \* calls of the task store in one behaviour
MaxCreate == 2     \* create_task calls in one behaviour
MaxThread == 2     \* comments in one thread
MaxClock == 1      \* minutes the clock may advance
MaxNotifs == 2     \* add_notification calls in one behaviour
MaxMarks == 3      \* mark_delivered calls in one behaviour
MaxWork == 2       \* ids in the stores find_work is called on

\* ------------------------------------------------------------------ inputs
Agents == {"alice", "bob"}
LedgerAgents == {"bob", "carol"}
Titles == {"T"}
Descriptions == {<<"d">>}
Messages == {<<"hi">>}
\* add_notification's message (the pieces of one line), task_id and link,
\* "" for a missing one
NotifInputs ==
  { << <<"m1">>, "task-001", "L" >>,
    << <<"see ", "(", "docs", ")">>, "", "" >> }
MoveTargets == {"inbox", "in-progress", "deployed", "blocked"}
None == "<None>"

\* ---------------------------------------------------------------- statuses
statuses ==
  << "inbox", "in-discovery", "in-planning", "ready-to-build", "in-progress",
     "ready-for-testing", "in-qa", "ready-to-deploy", "deployed", "blocked" >>

StatusSet == { statuses[i] : i \in 1..Len(statuses) }

\* -------------------------------------------------------------------- time
\* datetime.now().isoformat()[:16] at minute t, and the full isoformat()
Minute(t) == "2026-01-01T00:0" \o ToString(t)
Iso(t) == Minute(t) \o ":00.000001"

\* ------------------------------------------------------------- identifiers
Pad3(n) ==
  IF n < 10 THEN "00" \o ToString(n)
  ELSE IF n < 100 THEN "0" \o ToString(n)
  ELSE ToString(n)

\* f"task-{n:03d}"
TaskId(n) == "task-" \o Pad3(n)

\* int(filename[5:8]) for the file name task-<n:03d>.md: the first three
\* characters after "task-"
FileNum(n) ==
  IF n < 1000 THEN n
  ELSE IF n < 10000 THEN n \div 10
  ELSE IF n < 100000 THEN n \div 100
  ELSE n \div 1000

SetMax(S) == IF S = {} THEN 0 ELSE CHOOSE m \in S : \A x \in S : x <= m

\* ------------------------------------------------------------------ lines
\* A line of a file is the sequence of the pieces the code formats it from:
\* "### " \o ts \o " - " \o agent is << "### ", ts, " - ", agent >>, an empty
\* line is <<"">>.  The groups of the regular expressions are pieces.  A line
\* of an input string (a description, a message) is cut into the pieces the
\* regular expressions see in it.
Blank == <<"">>

StartsWith(l, p) == Len(l) >= Len(p) /\ SubSeq(l, 1, Len(p)) = p

From(l, i) == SubSeq(l, i, Len(l))

\* the characters of [\d\-:T]
TsChars == {"0", "1", "2", "3", "4", "5", "6", "7", "8", "9", "-", ":", "T"}

\* the length of the longest prefix [\d\-:T]* of l
RECURSIVE TsLen(_)
TsLen(l) ==
  IF Len(l) = 0 \/ SubSeq(l, 1, 1) \notin TsChars THEN 0
  ELSE 1 + TsLen(From(l, 2))

\* the section headers the code writes as whole lines
Headers == {"## Description", "## Thread", "## Pending", "## Delivered"}

Pieces(l) ==
  IF l \in Headers THEN <<l>>
  ELSE IF StartsWith(l, "### @") THEN <<"### @", From(l, 6)>>
  ELSE IF StartsWith(l, "### ")
  THEN LET rest == From(l, 5)
           k == TsLen(rest)
       IN IF k >= 1 /\ Len(rest) >= k + 4 /\ SubSeq(rest, k + 1, k + 3) = " - "
          THEN <<"### ", SubSeq(rest, 1, k), " - ", From(rest, k + 4)>>
          ELSE <<"### ", rest>>
  ELSE IF StartsWith(l, "## ") THEN <<"## ", From(l, 4)>>
  ELSE <<l>>

RECURSIVE LineText(_)
LineText(line) ==
  IF Len(line) = 1 THEN line[1] ELSE line[1] \o LineText(Tail(line))

\* the lines of a multi-line string, and the string of some lines
ToLines(str) == [ i \in 1..Len(str) |-> Pieces(str[i]) ]
ToString_(ls) == [ i \in 1..Len(ls) |-> LineText(ls[i]) ]

\* a line matching  ### ([\d\-:T]+) - ([^\n]+)
IsCommentHeading(line) ==
  Len(line) = 4 /\ line[1] = "### " /\ line[3] = " - " /\ line[4] # ""

\* a line starting with "### "
StartsH3(line) == line[1] \in {"### ", "### @"}

\* a line starting with "## "
StartsH2(line) == line[1] \in {"## Description", "## Thread", "## "}

\* str.strip() of a multi-line string whose lines carry no outer blanks
RECURSIVE DropBlankHead(_)
DropBlankHead(str) ==
  IF str = <<>> THEN <<>>
  ELSE IF Head(str) = "" THEN DropBlankHead(Tail(str))
  ELSE str

RECURSIVE DropBlankTail(_)
DropBlankTail(str) ==
  IF str = <<>> THEN <<>>
  ELSE IF str[Len(str)] = "" THEN DropBlankTail(SubSeq(str, 1, Len(str) - 1))
  ELSE str

Strip(str) ==
  LET r == DropBlankTail(DropBlankHead(str))
  IN IF r = <<>> THEN <<"">> ELSE r

\* ------------------------------------------------------------------- JSON
Names == Agents \cup {"ui", "pm"}

RECURSIVE JsonItems(_)
JsonItems(l) ==
  IF Len(l) = 1 THEN "\"" \o l[1] \o "\""
  ELSE "\"" \o l[1] \o "\", " \o JsonItems(Tail(l))

\* json.dumps of a list of strings
JsonDumps(l) == IF l = <<>> THEN "[]" ELSE "[" \o JsonItems(l) \o "]"

Lists ==
  {<<>>} \cup { <<a>> : a \in Names } \cup { <<a, b>> : a \in Names, b \in Names }
  \cup { <<a, b, c>> : a \in Agents, b \in Agents, c \in Agents }

JsonTable == [ l \in Lists |-> JsonDumps(l) ]

\* value.startswith('[')
IsJsonList(v) == \E l \in Lists : JsonTable[l] = v

\* json.loads of such a value
JsonLoads(v) == CHOOSE l \in Lists : JsonTable[l] = v

\* ------------------------------------------------------------ Task codec
\* frontmatter.get(key, default) after the loop over the frontmatter lines
\* <<key, value>>: the last line with the key wins; a value starting with
\* '[' is a JSON list
RECURSIVE FmGet(_, _, _)
FmGet(fm, key, default) ==
  IF fm = <<>> THEN default
  ELSE LET l == fm[Len(fm)]
       IN IF l[1] = key
          THEN (IF IsJsonList(l[2]) THEN JsonLoads(l[2]) ELSE l[2])
          ELSE FmGet(SubSeq(fm, 1, Len(fm) - 1), key, default)

RECURSIVE CommentLines(_)
CommentLines(thread) ==
  IF thread = <<>> THEN <<>>
  ELSE LET c == Head(thread)
       IN << Pieces("### " \o c.timestamp \o " - " \o c.agent) >>
          \o ToLines(c.message) \o << Blank >>
          \o CommentLines(Tail(thread))

\* Task.to_markdown: the frontmatter lines and the body lines (the elements
\* of the list the code joins with "\n")
to_markdown(t) ==
  [ fm |->
      << <<"id", t.id>>, <<"title", t.title>>, <<"status", t.status>>,
         <<"priority", t.priority>>, <<"created", t.created>>,
         <<"updated", t.updated>>, <<"assigned", JsonDumps(t.assigned)>>,
         <<"subscribers", JsonDumps(t.subscribers)>>,
         <<"tags", JsonDumps(t.tags)>> >>
      \o (IF t.prd \notin {None, ""} THEN << <<"prd", t.prd>> >> ELSE <<>>)
      \o (IF t.plan \notin {None, ""} THEN << <<"plan", t.plan>> >> ELSE <<>>)
      \o (IF t.pr \notin {None, ""} THEN << <<"pr", t.pr>> >> ELSE <<>>),
    body |->
      << Blank, <<"# ", t.title>>, Blank, <<"## Description">> >>
      \o ToLines(t.description) \o << Blank >>
      \o (IF t.thread # <<>>
          THEN << <<"## Thread">>, Blank >> \o CommentLines(t.thread)
          ELSE <<>>) ]

\* where (.*?)(?=\n### |\Z) stops: the least j >= the given one that is the
\* last line or has a line starting with "### " after it
RECURSIVE StopH3(_, _)
StopH3(ls, j) ==
  IF j >= Len(ls) THEN Len(ls)
  ELSE IF StartsH3(ls[j + 1]) THEN j
  ELSE StopH3(ls, j + 1)

\* where (.*?)(?=\n## |\Z) stops
RECURSIVE StopH2(_, _)
StopH2(ls, j) ==
  IF j >= Len(ls) THEN Len(ls)
  ELSE IF StartsH2(ls[j + 1]) THEN j
  ELSE StopH2(ls, j + 1)

\* re.findall(r'### ([\d\-:T]+) - ([^\n]+)\n(.*?)(?=\n### |\Z)') from line h on
RECURSIVE FindComments(_, _)
FindComments(ls, h) ==
  IF h >= Len(ls) THEN <<>>
  ELSE IF IsCommentHeading(ls[h])
  THEN LET k == StopH3(ls, h + 1)
       IN << [ timestamp |-> ls[h][2],
               agent |-> ls[h][4],
               message |-> Strip(ToString_(SubSeq(ls, h + 1, k))) ] >>
          \o FindComments(ls, k + 1)
  ELSE FindComments(ls, h + 1)

\* re.search(r'## Thread\n\n(.*)$'): the first "## Thread" line followed by
\* an empty line and a further line
ThreadStart(body) ==
  LET S == { i \in 1..Len(body) :
               /\ body[i] = <<"## Thread">>
               /\ i + 2 <= Len(body)
               /\ body[i + 1] = Blank }
  IN IF S = {} THEN 0 ELSE CHOOSE i \in S : \A j \in S : i <= j

ParseThread(body) ==
  LET i == ThreadStart(body)
  IN IF i = 0 THEN <<>>
     ELSE FindComments(SubSeq(body, i + 2, Len(body)), 1)

\* re.search(r'## Description\n(.*?)(?=\n## |\Z)').group(1).strip()
ParseDescription(body) ==
  LET S == { i \in 1..Len(body) : body[i] = <<"## Description">> /\ i < Len(body) }
  IN IF S = {} THEN <<"">>
     ELSE LET d == CHOOSE i \in S : \A j \in S : i <= j
          IN Strip(ToString_(SubSeq(body, d + 1, StopH2(body, d + 1))))

\* Task.from_markdown
from_markdown(doc) ==
  [ id |-> FmGet(doc.fm, "id", ""),
    title |-> FmGet(doc.fm, "title", ""),
    description |-> ParseDescription(doc.body),
    status |-> FmGet(doc.fm, "status", "inbox"),
    priority |-> FmGet(doc.fm, "priority", "P2"),
    assigned |-> FmGet(doc.fm, "assigned", <<>>),
    subscribers |-> FmGet(doc.fm, "subscribers", <<>>),
    tags |-> FmGet(doc.fm, "tags", <<>>),
    created |-> FmGet(doc.fm, "created", ""),
    updated |-> FmGet(doc.fm, "updated", ""),
    prd |-> FmGet(doc.fm, "prd", None),
    plan |-> FmGet(doc.fm, "plan", None),
    pr |-> FmGet(doc.fm, "pr", None),
    thread |-> ParseThread(doc.body) ]

\* Task(id=..., title=..., description=..., priority=..., tags=...) at time t
NewTask(id, title, description, priority, tags, t) ==
  [ id |-> id, title |-> title, description |-> description,
    status |-> "inbox", priority |-> priority, assigned |-> <<>>,
    subscribers |-> <<>>, tags |-> tags, created |-> Iso(t), updated |-> Iso(t),
    prd |-> None, plan |-> None, pr |-> None, thread |-> <<>> ]

\* ------------------------------------------------------------------ state
VARIABLES
  files,      \* tasks/<status>/<id>.md: a function from <<status, number>> to
              \* the document written there, the number n naming task-<n:03d>
  activity,   \* activity.log, its lines
  ledger,     \* notifications.md: whether it exists, and its lines
  now,        \* the clock, in minutes
  issued,     \* the numbers of the ids create_task has returned, in order
  steps,      \* calls that have written to the store
  sent,       \* add_notification calls made
  marks,      \* mark_delivered calls made
  lastMark,   \* the agent of the last mark_delivered call and how many times
              \* in a row it was called, no call having written to the ledger
              \* in between
  added,      \* for each agent, what add_notification has added for it
              \* since its last mark_delivered, in order
  raised,     \* the error the last call of the task store raised and the
              \* number of the id it was called with, NoError once a call
              \* has returned
  codec,      \* a Task handed to the codec: the Task, the document
              \* to_markdown makes of it, the Task from_markdown reads back
  work,       \* the last find_work call: the role and the directory order
              \* it ran with, and what it returned
  found,      \* the last find_task call: the number of the id it was called
              \* with and what it returned, <<>> for None, <<t>> for a Task t
  procs       \* the calls that run concurrently, one per process: the call,
              \* the step it is at, and its local variables

vars ==
  << files, activity, ledger, now, issued, steps, sent, marks, lastMark, added,
     raised, codec, work, found, procs >>

NoMark == [ agent |-> "", times |-> 0 ]

NoError == [ error |-> "", id |-> 0 ]

RaiseInvalid(error, n) == [ error |-> "InvalidStatus", id |-> n ]

\* raise ValueError(...): the error, and the id of the call
Raise(error, n) == [ error |-> error, id |-> n ]

\* ------------------------------------------------------------- file store
Paths(fs) == DOMAIN fs

\* a file of zero bytes: what open(path, 'w') leaves until the write
EmptyFile == [ bytes |-> 0 ]

\* re.match(r'^---\n(.*?)\n---\n(.*)$', content): whether from_markdown
\* reads the file, or raises ValueError("Invalid task file format")
IsTaskFormat(doc) == doc # EmptyFile

\* open(path, 'w').write(doc)
WriteFile(fs, path, doc) ==
  [ p \in Paths(fs) \cup {path} |-> IF p = path THEN doc ELSE fs[p] ]

\* os.remove(path)
RemoveFile(fs, path) == [ p \in Paths(fs) \ {path} |-> fs[p] ]
\* the last directory of self.statuses that holds <id>.md
FindLastTaskFile(fs, n) ==
  LET S == { i \in 1..Len(statuses) : <<statuses[i], n>> \in Paths(fs) }
  IN IF S = {} THEN ""
     ELSE statuses[CHOOSE i \in S : \A j \in S : i >= j]

\* TaskManager._find_task_file: the status of the first directory, in the
\* order of self.statuses, that holds <id>.md; "" for None
FindTaskFile(fs, n) ==
  LET S == { i \in 1..Len(statuses) : <<statuses[i], n>> \in Paths(fs) }
  IN IF S = {} THEN ""
     ELSE statuses[CHOOSE i \in S : \A j \in S : i <= j]

\* TaskManager.find_task: the decoded record, or None
find_task(fs, n) ==
  LET s == FindTaskFile(fs, n)
  IN IF s = "" THEN None ELSE from_markdown(fs[<<s, n>>])

\* TaskManager._generate_task_id: the number of the next id
GenerateTaskNum(fs) == SetMax({ FileNum(p[2]) : p \in Paths(fs) }) + 1

\* TaskManager.log_activity
LogLine(t, agent, message) == Iso(t) \o " | " \o agent \o " | " \o message

\* ---------------------------------------------------------------- ledger
\* The ledger is kept as its lines, each ended by "\n" in the file.
LedgerNew ==
  << <<"# Notifications">>, Blank, <<"## Pending">>, Blank,
     <<"## Delivered">>, Blank >>

\* the content _notify_subscribers starts from when the file is missing
LedgerNoFile == << <<"# Notifications">>, Blank, <<"## Pending">>, Blank >>

InsertIntoNew(ls, notif) ==
  << <<"# Notifications">>, Blank, <<"## Pending">>, Blank >> \o notif
  \o << <<"## Delivered">>, Blank >>

\* content.replace("## Pending\n\n", "## Pending\n\n" + notif): every
\* "## Pending" line followed by an empty line gets the lines of notif after it
RECURSIVE InsertAfterPending(_, _)
InsertAfterPending(ls, notif) ==
  IF ls = <<>> THEN <<>>
  ELSE IF Len(ls) >= 2 /\ ls[1] = <<"## Pending">> /\ ls[2] = Blank
  THEN << <<"## Pending">>, Blank >> \o notif
       \o InsertAfterPending(SubSeq(ls, 3, Len(ls)), notif)
  ELSE << ls[1] >> \o InsertAfterPending(Tail(ls), notif)

MsgLimit == 100

\* the number of characters of a multi-line string
RECURSIVE Chars(_)
Chars(ls) ==
  IF Len(ls) = 1 THEN Len(ls[1]) ELSE Len(ls[1]) + 1 + Chars(Tail(ls))

\* message[:n]
RECURSIVE Take(_, _)
Take(ls, n) ==
  IF Len(ls[1]) >= n THEN << SubSeq(ls[1], 1, n) >>
  ELSE IF Len(ls) = 1 THEN ls
  ELSE << ls[1] >> \o Take(Tail(ls), n - Len(ls[1]) - 1)

\* f'{message[:100]}{"..." if len(message) > 100 else ""}'
Truncate(message) ==
  IF Chars(message) > MsgLimit
  THEN LET cut == Take(message, MsgLimit)
       IN SubSeq(cut, 1, Len(cut) - 1) \o << cut[Len(cut)] \o "..." >>
  ELSE message

\* the entry _notify_subscribers writes for one subscriber
CommentNotif(agent, commenter, task, message, t) ==
  LET m == Truncate(message)
  IN << Blank, <<"### @", agent>>,
        <<"From: ", commenter, " (", task.id, ")">>,
        <<"Message: ", m[1]>> >>
     \o ToLines(Tail(m))
     \o << <<"Time: ", Minute(t)>>,
           <<"Link: ", "workspace/tasks/" \o task.status \o "/" \o task.id \o ".md">>,
           Blank >>

RECURSIVE InsertAll(_, _, _, _, _)
InsertAll(content, to_notify, commenter, task_msg, t) ==
  IF to_notify = <<>> THEN content
  ELSE InsertAll(
         InsertAfterPending(content,
           CommentNotif(Head(to_notify), commenter, task_msg[1], task_msg[2], t)),
         Tail(to_notify), commenter, task_msg, t)

\* TaskManager._notify_subscribers: the ledger afterwards
NotifySubscribers(l, task, commenter, message, t) ==
  LET to_notify == SelectSeq(task.subscribers, LAMBDA s : s # commenter)
  IN IF to_notify = <<>> THEN l
     ELSE [ exists |-> TRUE,
            lines |-> InsertAll(IF l.exists THEN l.lines ELSE LedgerNoFile,
                                to_notify, commenter, <<task, message>>, t) ]

\* ------------------------------------------------------------ task store
\* the ids a caller may name: every id ever seen, and one that never exists
CallNums == { p[2] : p \in Paths(files) } \cup { issued[i] : i \in 1..Len(issued) }
            \cup {7}

TaskFields ==
  { "id", "title", "description", "status", "priority", "assigned",
    "subscribers", "tags", "created", "updated", "prd", "plan", "pr", "thread" }

\* the keyword arguments update_task is called with, as <<key, value>> pairs
UpdateInputs ==
  { << <<"status", "blocked">> >>,
    << <<"assigned", <<"bob">>>> >>,
    << <<"priority", "P1">> >>,
    << <<"created", Iso(MaxClock + 1)>> >>,
    << <<"bogus", "x">> >> }

\* for key, value in updates.items(): if hasattr(task, key): setattr(...)
RECURSIVE ApplyUpdates(_, _)
ApplyUpdates(task, updates) ==
  IF updates = <<>> THEN task
  ELSE LET u == Head(updates)
       IN ApplyUpdates(
            IF u[1] \in TaskFields THEN [ task EXCEPT ![u[1]] = u[2] ] ELSE task,
            Tail(updates))

\* TaskManager.update_task on a record that exists: the files afterwards
UpdateFiles(fs, n, updates, t) ==
  LET s == FindTaskFile(fs, n)
      task == ApplyUpdates(from_markdown(fs[<<s, n>>]), updates)
  IN WriteFile(fs, <<s, n>>, to_markdown([ task EXCEPT !.updated = Iso(t) ]))

MovedBlank(task, new_status, t) ==
  [ task EXCEPT !.status = new_status, !.updated = Iso(t), !.thread = <<>> ]

\* task.status = new_status; task.updated = datetime.now().isoformat()
Moved(task, new_status, t) ==
  [ task EXCEPT !.status = new_status, !.updated = Iso(t) ]

\* TaskManager.move_task on a record that exists, up to the write of the
\* record under the new status
MoveWritten(fs, n, new_status, t) ==
  LET s == FindTaskFile(fs, n)
  IN WriteFile(fs, <<new_status, n>>,
               to_markdown(Moved(from_markdown(fs[<<s, n>>]), new_status, t)))

\* TaskManager.move_task on a record that exists: write the record under
\* the new status, then remove the old file
MoveFiles(fs, n, new_status, t) ==
  RemoveFile(MoveWritten(fs, n, new_status, t), <<FindTaskFile(fs, n), n>>)

AutoSubscribeAlways(subscribers, agent) == Append(subscribers, agent)

\* the subscribers after the auto-subscribe of add_comment and assign_task
AutoSubscribe(subscribers, agent) ==
  IF \E i \in 1..Len(subscribers) : subscribers[i] = agent
  THEN subscribers
  ELSE Append(subscribers, agent)

\* the record add_comment writes back
Commented(task, agent, message, t) ==
  [ task EXCEPT
      !.thread = Append(@, [ timestamp |-> Minute(t), agent |-> agent,
                             message |-> message ]),
      !.subscribers = AutoSubscribe(@, agent),
      !.updated = Iso(t) ]

\* the lists assign_task passes to update_task
Assigned(task, agent) ==
  IF \E i \in 1..Len(task.assigned) : task.assigned[i] = agent
  THEN << <<"assigned", task.assigned>>, <<"subscribers", task.subscribers>> >>
  ELSE << <<"assigned", Append(task.assigned, agent)>>,
          <<"subscribers", AutoSubscribe(task.subscribers, agent)>> >>

\* what a call returns or raises: "ok", or the error it fails with
UpdateResult(fs, n) ==
  IF FindTaskFile(fs, n) = "" THEN "NotFound"
  ELSE IF ~IsTaskFormat(fs[<<FindTaskFile(fs, n), n>>]) THEN "InvalidFormat"
  ELSE "ok"

MoveResultLookupFirst(fs, n, new_status) ==
  IF FindTaskFile(fs, n) = "" THEN "NotFound"
  ELSE IF new_status \notin StatusSet THEN "InvalidStatus"
  ELSE IF ~IsTaskFormat(fs[<<FindTaskFile(fs, n), n>>]) THEN "InvalidFormat"
  ELSE "ok"

MoveResult(fs, n, new_status) ==
  IF new_status \notin StatusSet THEN "InvalidStatus"
  ELSE IF FindTaskFile(fs, n) = "" THEN "NotFound"
  ELSE IF ~IsTaskFormat(fs[<<FindTaskFile(fs, n), n>>]) THEN "InvalidFormat"
  ELSE "ok"

create_task(title, description) ==
  /\ steps < MaxOps
  /\ Len(issued) < MaxCreate
  /\ LET n == GenerateTaskNum(files)
         task == NewTask(TaskId(n), title, description, "P2", <<>>, now)
     IN /\ files' = WriteFile(files, <<"inbox", n>>, to_markdown(task))
        /\ activity' = Append(activity,
             LogLine(now, "system", "Created task " \o TaskId(n) \o ": " \o title))
        /\ issued' = Append(issued, n)
  /\ raised' = NoError
  /\ steps' = steps + 1
  /\ UNCHANGED << ledger, now, sent, marks, lastMark, added, codec, work, found, procs >>

update_task(n, updates) ==
  /\ steps < MaxOps
  /\ IF UpdateResult(files, n) # "ok"
     THEN /\ raised' = Raise(UpdateResult(files, n), n)
          /\ UNCHANGED << files, steps >>
     ELSE /\ files' = UpdateFiles(files, n, updates, now)
          /\ raised' = NoError
          /\ steps' = steps + 1
  /\ UNCHANGED << activity, ledger, now, issued, sent, marks, lastMark, added, codec, work, found, procs >>

move_task(n, new_status) ==
  /\ steps < MaxOps
  /\ IF MoveResult(files, n, new_status) # "ok"
     THEN /\ raised' = Raise(MoveResult(files, n, new_status), n)
          /\ UNCHANGED << files, activity, steps >>
     ELSE /\ files' = MoveFiles(files, n, new_status, now)
          /\ raised' = NoError
          /\ activity' = Append(activity,
               LogLine(now, "system",
                 "Moved " \o TaskId(n) \o " from "
                 \o find_task(files, n).status \o " to " \o new_status))
          /\ steps' = steps + 1
  /\ UNCHANGED << ledger, now, issued, sent, marks, lastMark, added, codec, work, found, procs >>

add_comment(n, agent, message) ==
  /\ steps < MaxOps
  /\ IF UpdateResult(files, n) # "ok"
     THEN /\ raised' = Raise(UpdateResult(files, n), n)
          /\ UNCHANGED << files, activity, ledger, steps, lastMark >>
     ELSE LET s == FindTaskFile(files, n)
              task == Commented(from_markdown(files[<<s, n>>]), agent, message, now)
          IN /\ Len(task.thread) <= MaxThread
             /\ files' = WriteFile(files, <<s, n>>, to_markdown(task))
             /\ activity' = Append(activity,
                  LogLine(now, agent, "Commented on " \o TaskId(n)))
             /\ ledger' = NotifySubscribers(ledger, task, agent, message, now)
             /\ lastMark' = NoMark
             /\ raised' = NoError
             /\ steps' = steps + 1
  /\ UNCHANGED << now, issued, sent, marks, added, codec, work, found, procs >>

\* the points of move_task the process can die at having changed the files:
\* after open(new_filepath, 'w') and before the write, after the write of
\* the new file, and after the removal of the old one
CrashPoints == { "opened", "written", "removed" }

\* a move_task call the process dies in: the files are as the steps taken
\* left them, nothing is logged, nothing is returned or raised
move_task_crash(n, new_status, point) ==
  /\ steps < MaxOps
  /\ MoveResult(files, n, new_status) = "ok"
  /\ files' = IF point = "opened"
               THEN WriteFile(files, <<new_status, n>>, EmptyFile)
               ELSE IF point = "written"
               THEN MoveWritten(files, n, new_status, now)
               ELSE MoveFiles(files, n, new_status, now)
  /\ raised' = NoError
  /\ steps' = steps + 1
  /\ UNCHANGED << activity, ledger, now, issued, sent, marks, lastMark, added, codec, work, found, procs >>

\* a TaskManager.find_task call: None, the Task read from the first file
\* found, or the ValueError of from_markdown
FindTask(n) ==
  /\ IF FindTaskFile(files, n) = ""
     THEN /\ found' = [ id |-> n, result |-> <<>> ]
          /\ raised' = NoError
     ELSE IF ~IsTaskFormat(files[<<FindTaskFile(files, n), n>>])
     THEN /\ found' = found
          /\ raised' = Raise("InvalidFormat", n)
     ELSE /\ found' = [ id |-> n, result |-> << find_task(files, n) >> ]
          /\ raised' = NoError
  /\ UNCHANGED << files, activity, ledger, now, issued, steps, sent, marks, lastMark,
                  added, codec, work, procs >>

\* TaskManager.log_activity, ActivityLogger.log: a line appended to the log
log_activity(agent, message) ==
  /\ steps < MaxOps
  /\ activity' = Append(activity, LogLine(now, agent, message))
  /\ raised' = NoError
  /\ steps' = steps + 1
  /\ UNCHANGED << files, ledger, now, issued, sent, marks, lastMark, added, codec,
                  work, found, procs >>

assign_task(n, agent) ==
  /\ steps < MaxOps
  /\ IF UpdateResult(files, n) # "ok"
     THEN /\ raised' = Raise(UpdateResult(files, n), n)
          /\ UNCHANGED << files, steps >>
     ELSE /\ files' = UpdateFiles(files, n, Assigned(find_task(files, n), agent), now)
          /\ raised' = NoError
          /\ steps' = steps + 1
  /\ UNCHANGED << activity, ledger, now, issued, sent, marks, lastMark, added, codec, work, found, procs >>

\* time passes between two calls
Tick ==
  /\ now < MaxClock
  /\ now' = now + 1
  /\ UNCHANGED << files, activity, ledger, issued, steps, sent, marks, lastMark, added,
                  raised, codec, work, found, procs >>

\* --------------------------------------------------- notification ledger
\* NotificationManager.__init__ / _ensure_file_exists
EnsureFileExists(l) == IF l.exists THEN l ELSE [ exists |-> TRUE, lines |-> LedgerNew ]

\* the entry add_notification writes; "" stands for a missing task_id or link
Notif(to_agent, from_agent, message, task_id, link, t) ==
  << Blank, <<"### @", to_agent>>,
     (IF task_id # "" THEN <<"From: ", from_agent, " (", task_id, ")">>
      ELSE <<"From: ", from_agent>>),
     <<"Message: ">> \o message,
     <<"Time: ", Minute(t)>>,
     (IF link # "" THEN <<"Link: ", link>> ELSE Blank),
     Blank >>

\* re.search(r'(## Pending\n\n)(.*?)(## Delivered)'): the line of the first
\* "## Pending" header that an empty line and, later, "## Delivered" follow;
\* 0 when there is no match
PendingStart(ls) ==
  LET S == { i \in 1..Len(ls) :
               /\ ls[i] = <<"## Pending">>
               /\ i + 1 <= Len(ls) /\ ls[i + 1] = Blank
               /\ \E j \in (i + 2)..Len(ls) : ls[j][1] = "## Delivered" }
  IN IF S = {} THEN 0 ELSE CHOOSE i \in S : \A j \in S : i <= j

DeliveredLine(ls) ==
  LET p == PendingStart(ls)
  IN CHOOSE j \in (p + 2)..Len(ls) :
       /\ ls[j][1] = "## Delivered"
       /\ \A k \in (p + 2)..(j - 1) : ls[k][1] # "## Delivered"

\* group 2: the lines between the two headers
PendingSection(ls) == SubSeq(ls, PendingStart(ls) + 2, DeliveredLine(ls) - 1)

\* a line that (?=\n### @|\n## ) accepts as the next one
EntryEnd(line) == line[1] = "### @" \/ line[1] \in {"## Pending", "## Delivered", "## "}

\* where  ### @agent\n(.*?)(?=\n### @|\n## |\Z)  stops after the header at
\* line h: the least j > h that such a line follows, or 0 for the end of the
\* section
EntryStop(sec, h) ==
  LET S == { j \in (h + 1)..(Len(sec) - 1) : EntryEnd(sec[j + 1]) }
  IN IF S = {} THEN 0 ELSE CHOOSE j \in S : \A k \in S : j <= k

\* the matches of that pattern from line h on, each as the lines of the
\* match, the last of them being the part of a line the match ends in
RECURSIVE FindEntries(_, _, _)
FindEntries(sec, agent, h) ==
  IF h > Len(sec) THEN <<>>
  ELSE IF sec[h] = <<"### @", agent>>
  THEN LET j == EntryStop(sec, h)
       IN IF j = 0
          THEN << SubSeq(sec, h, Len(sec)) \o << Blank >> >>
          ELSE << SubSeq(sec, h, j) >> \o FindEntries(sec, agent, j + 1)
  ELSE FindEntries(sec, agent, h + 1)

\* the text of an entry after its header line, as the pieces of its lines
\* with "\n" between two lines
RECURSIVE Flatten(_)
Flatten(ls) ==
  IF ls = <<>> THEN <<>>
  ELSE IF Len(ls) = 1 THEN ls[1]
  ELSE ls[1] \o <<"\n">> \o Flatten(Tail(ls))

Tokens(entry) == SelectSeq(Flatten(Tail(entry)), LAMBDA tok : tok # "")

RECURSIVE Concat(_)
Concat(toks) == IF toks = <<>> THEN "" ELSE Head(toks) \o Concat(Tail(toks))

Whitespace == {" ", "\t", "\n"}

\* str.strip()
RECURSIVE StripText(_)
StripText(str) ==
  IF Len(str) = 0 THEN str
  ELSE IF SubSeq(str, 1, 1) \in Whitespace THEN StripText(SubSeq(str, 2, Len(str)))
  ELSE IF SubSeq(str, Len(str), Len(str)) \in Whitespace
  THEN StripText(SubSeq(str, 1, Len(str) - 1))
  ELSE str

\* the pieces that open and close a parenthesis
Open == {"(", " ("}
Close == {")"}

First(S) == CHOOSE i \in S : \A j \in S : i <= j

\* re.search(field + r'([^\n]+)') (for From: r'([^\n(]+)'): the places where
\* the field name is followed by a character that is none of stops
FieldAt(toks, field, stops) ==
  { i \in 1..(Len(toks) - 1) : toks[i] = field /\ toks[i + 1] \notin stops }

\* group 1 of the first match, stripped
FieldValue(toks, field, stops) ==
  LET i == First(FieldAt(toks, field, stops))
      E == { j \in (i + 1)..Len(toks) : toks[j] \in stops }
      j == IF E = {} THEN Len(toks) + 1 ELSE First(E)
  IN StripText(Concat(SubSeq(toks, i + 1, j - 1)))

\* re.search(r'\(([^)]+)\)'): the places where a parenthesis opens that is
\* not empty and is closed later
TaskAt(toks) ==
  { i \in 1..(Len(toks) - 1) :
      /\ toks[i] \in Open
      /\ toks[i + 1] \notin Close
      /\ \E j \in (i + 2)..Len(toks) : toks[j] \in Close }

TaskValue(toks) ==
  LET i == First(TaskAt(toks))
      j == First({ k \in (i + 2)..Len(toks) : toks[k] \in Close })
  IN Concat(SubSeq(toks, i + 1, j - 1))

FieldName(k) ==
  CASE k = "from" -> "From: " [] k = "message" -> "Message: "
    [] k = "time" -> "Time: " [] k = "link" -> "Link: "

FieldStops(k) == IF k = "from" THEN {"\n"} \cup Open ELSE {"\n"}

\* the dict get_notifications builds from one entry
ParseNotif(entry) ==
  LET toks == Tokens(entry)
      keys == { k \in {"from", "message", "time", "link"} :
                  FieldAt(toks, FieldName(k), FieldStops(k)) # {} }
              \cup (IF TaskAt(toks) # {} THEN {"task_id"} ELSE {})
  IN [ k \in keys |->
         IF k = "task_id" THEN TaskValue(toks)
         ELSE FieldValue(toks, FieldName(k), FieldStops(k)) ]

\* NotificationManager.get_notifications
get_notifications(l, agent) ==
  IF ~l.exists \/ PendingStart(l.lines) = 0 THEN <<>>
  ELSE LET entries == FindEntries(PendingSection(l.lines), agent, 1)
           parsed == [ i \in 1..Len(entries) |-> ParseNotif(entries[i]) ]
       IN SelectSeq(parsed, LAMBDA d : DOMAIN d # {})

\* whether the text of pat (the lines of a match, the last one a part of a
\* line) occurs in ls from line i on
OccursAt(ls, i, pat) ==
  LET m == Len(pat)
  IN /\ \A k \in 1..(m - 1) : i + k - 1 <= Len(ls) /\ ls[i + k - 1] = pat[k]
     /\ pat[m] # Blank => (i + m - 1 <= Len(ls) /\ ls[i + m - 1] = pat[m])

\* pending_content.replace(notif, ''): every occurrence, left to right
RECURSIVE RemoveAll(_, _, _)
RemoveAll(ls, i, pat) ==
  IF i > Len(ls) THEN ls
  ELSE IF OccursAt(ls, i, pat)
  THEN LET m == Len(pat)
           rest == IF pat[m] = Blank
                   THEN SubSeq(ls, i + m - 1, Len(ls))
                   ELSE << Blank >> \o SubSeq(ls, i + m, Len(ls))
       IN RemoveAll(SubSeq(ls, 1, i - 1) \o rest, i, pat)
  ELSE RemoveAll(ls, i + 1, pat)

RemoveNone(ls, notifs) == ls

RemoveEverything(ls, notifs) == <<>>

\* for notif in agent_notifs: pending_content = pending_content.replace(notif, '')
RECURSIVE RemoveEach(_, _)
RemoveEach(ls, notifs) ==
  IF notifs = <<>> THEN ls
  ELSE RemoveEach(RemoveAll(ls, 1, Head(notifs)), Tail(notifs))

\* f"{notif}Delivered: {delivered_time}\n" as lines
Stamp(notif, t) ==
  LET m == Len(notif)
  IN SubSeq(notif, 1, m - 1)
     \o << (IF notif[m] = Blank THEN <<>> ELSE notif[m]) \o <<"Delivered: ", Minute(t)>> >>

RECURSIVE StampAll(_, _)
StampAll(notifs, t) ==
  IF notifs = <<>> THEN <<>>
  ELSE Stamp(Head(notifs), t) \o StampAll(Tail(notifs), t)

\* re.search(r'## Delivered\n\n(.*)'): the lines after the first
\* "## Delivered" header that an empty line follows
DeliveredContent(ls) ==
  LET S == { i \in 1..Len(ls) :
               ls[i][1] = "## Delivered" /\ i + 1 <= Len(ls) /\ ls[i + 1] = Blank }
  IN IF S = {} THEN <<>>
     ELSE SubSeq(ls, First(S) + 2, Len(ls))

\* new_content of mark_delivered: the newly delivered entries, then the
\* content the Delivered section had
Reconstruct(pending, delivered_notifs, delivered_content) ==
  << <<"## Pending">>, Blank >> \o pending
  \o << <<"## Delivered">>, Blank >> \o delivered_notifs \o delivered_content

\* whether mark_delivered returns without writing
NothingToDeliver(l, agent) ==
  \/ ~l.exists
  \/ PendingStart(l.lines) = 0
  \/ FindEntries(PendingSection(l.lines), agent, 1) = <<>>

\* NotificationManager.mark_delivered: the ledger afterwards
MarkDelivered(l, agent, t) ==
  IF NothingToDeliver(l, agent) THEN l
  ELSE LET agent_notifs == FindEntries(PendingSection(l.lines), agent, 1)
       IN [ exists |-> TRUE,
            lines |-> Reconstruct(RemoveEach(PendingSection(l.lines), agent_notifs),
                                  StampAll(agent_notifs, t),
                                  DeliveredContent(l.lines)) ]

\* NotificationManager(workspace)
NotificationManager ==
  /\ ~ledger.exists
  /\ ledger' = EnsureFileExists(ledger)
  /\ UNCHANGED << files, activity, now, issued, steps, sent, marks, lastMark, added,
                  raised, codec, work, found, procs >>

add_notification(to_agent, from_agent, message, task_id, link) ==
  /\ ledger.exists
  /\ sent < MaxNotifs
  /\ ledger' = [ ledger EXCEPT !.lines =
                   InsertAfterPending(@, Notif(to_agent, from_agent, message,
                                               task_id, link, now)) ]
  /\ sent' = sent + 1
  /\ lastMark' = NoMark
  /\ added' = [ added EXCEPT ![to_agent] =
                  Append(@, [ from |-> from_agent, message |-> Concat(message),
                              task_id |-> task_id, link |-> link,
                              time |-> Minute(now) ]) ]
  /\ UNCHANGED << files, activity, now, issued, steps, marks, raised, codec, work, found, procs >>

mark_delivered(agent) ==
  /\ ledger.exists
  /\ marks < MaxMarks
  /\ ledger' = MarkDelivered(ledger, agent, now)
  /\ marks' = marks + 1
  /\ lastMark' = [ agent |-> agent,
                    times |-> IF lastMark.agent = agent THEN lastMark.times + 1 ELSE 1 ]
  /\ added' = [ added EXCEPT ![agent] = <<>> ]
  /\ UNCHANGED << files, activity, now, issued, steps, sent, raised, codec, work, found, procs >>

\* a record is removed from the store by hand
remove_task(path) ==
  /\ steps < MaxOps
  /\ path \in Paths(files)
  /\ files' = RemoveFile(files, path)
  /\ steps' = steps + 1
  /\ UNCHANGED << activity, ledger, now, issued, sent, marks, lastMark, added, raised,
                  codec, work, found, procs >>

\* ---------------------------------------------------------- specifications
\* an empty workspace, or one that 999 creations have left task-999 in
\* ---------------------------------------------------------------- find_work
\* pattern in content, on one line of text
Contains(str, pat) ==
  \E i \in 1..(Len(str) - Len(pat) + 1) : SubSeq(str, i, i + Len(pat) - 1) = pat

\* f.read() of a record: the lines of its text
Content(doc) ==
  << "---" >> \o [ i \in 1..Len(doc.fm) |-> doc.fm[i][1] \o ": " \o doc.fm[i][2] ]
  \o << "---" >> \o ToString_(doc.body)

\* os.listdir(status_dir): the records of a status directory, in the order the
\* file system lists them; order ranks the numbers of the ids
listdir(fs, status, order) ==
  SelectSeq(order, LAMBDA n : <<status, n>> \in Paths(fs))

\* for status in self.statuses: for filename in os.listdir(status_dir):
\* the paths visited, from the i-th status on
RECURSIVE Walk(_, _, _)
Walk(fs, order, i) ==
  IF i > Len(statuses) THEN <<>>
  ELSE [ k \in 1..Len(listdir(fs, statuses[i], order)) |->
           <<statuses[i], listdir(fs, statuses[i], order)[k]>> ]
       \o Walk(fs, order, i + 1)

\* the result of a search: <<>> is None, <<t>> is the Task t
NoAssigned(fs, paths, role) == <<>>

\* the first loop of find_work: return the first task with the role in assigned
RECURSIVE FirstAssigned(_, _, _)
FirstAssigned(fs, paths, role) ==
  IF paths = <<>> THEN <<>>
  ELSE LET task == from_markdown(fs[Head(paths)])
       IN IF role \in { task.assigned[i] : i \in 1..Len(task.assigned) }
          THEN << task >>
          ELSE FirstAssigned(fs, Tail(paths), role)

\* TaskManager.find_mentions: the tasks whose file holds "@" + agent
RECURSIVE find_mentions(_, _, _)
find_mentions(fs, paths, agent) ==
  IF paths = <<>> THEN <<>>
  ELSE LET content == Content(fs[Head(paths)])
       IN (IF \E i \in 1..Len(content) : Contains(content[i], "@" \o agent)
           THEN << from_markdown(fs[Head(paths)]) >> ELSE <<>>)
          \o find_mentions(fs, Tail(paths), agent)

status_map ==
  [ r \in {"pm", "architect", "engineer", "qa", "security", "devops"} |->
      CASE r = "pm" -> "inbox"
        [] r = "architect" -> "in-planning"
        [] r = "engineer" -> "ready-to-build"
        [] r = "qa" -> "ready-for-testing"
        [] r = "security" -> "in-progress"
        [] r = "devops" -> "ready-to-deploy" ]

\* the last loop of find_work: return the first task with nobody assigned
RECURSIVE FirstUnassigned(_, _)
FirstUnassigned(fs, paths) ==
  IF paths = <<>> THEN <<>>
  ELSE LET task == from_markdown(fs[Head(paths)])
       IN IF task.assigned = <<>> THEN << task >>
          ELSE FirstUnassigned(fs, Tail(paths))

\* TaskManager.find_work
FindWork(fs, agent_role, order) ==
  LET assigned == FirstAssigned(fs, Walk(fs, order, 1), agent_role)
      mentions == find_mentions(fs, Walk(fs, order, 1), agent_role)
  IN IF assigned # <<>> THEN assigned
     ELSE IF mentions # <<>> THEN << mentions[1] >>
     ELSE IF agent_role \notin DOMAIN status_map THEN <<>>
     ELSE LET target_status == status_map[agent_role]
          IN FirstUnassigned(fs,
               [ k \in 1..Len(listdir(fs, target_status, order)) |->
                   <<target_status, listdir(fs, target_status, order)[k]>> ])

InitFiles(start) ==
  IF start = 0 THEN << >>
  ELSE [ p \in { <<"inbox", start>> } |->
           to_markdown(NewTask(TaskId(start), "T", <<"d">>, "P2", <<>>, 0)) ]

NoCodec == [ stage |-> "none", task |-> <<>>, doc |-> <<>>, back |-> <<>> ]

InitStore(start) ==
  /\ files = InitFiles(start)
  /\ activity = <<>>
  /\ ledger = [ exists |-> FALSE, lines |-> <<>> ]
  /\ now = 0
  /\ issued = <<>>
  /\ steps = 0
  /\ sent = 0
  /\ marks = 0
  /\ lastMark = NoMark
  /\ added = [ a \in LedgerAgents |-> <<>> ]
  /\ raised = NoError

NoWork == [ stage |-> "none", role |-> "", order |-> <<>>, result |-> <<>> ]

NoFound == [ id |-> 0, result |-> <<>> ]

NoProcs == << >>

InitWith(start) ==
  /\ InitStore(start) /\ codec = NoCodec /\ work = NoWork /\ found = NoFound
  /\ procs = NoProcs

\* the task store, from an empty workspace
Init == InitWith(0)

Next ==
  \/ \E title \in Titles, description \in Descriptions : create_task(title, description)
  \/ \E n \in CallNums, updates \in UpdateInputs : update_task(n, updates)
  \/ \E n \in CallNums, s \in MoveTargets \cup {"not-a-status"} : move_task(n, s)
  \/ \E n \in CallNums, agent \in Agents, message \in Messages :
       add_comment(n, agent, message)
  \/ \E n \in CallNums, agent \in Agents : assign_task(n, agent)
  \/ \E l \in { <<"engineer", "Completed auth API implementation">>,
              <<"system", "Moved task-001 from inbox to deployed">> } :
       log_activity(l[1], l[2])
  \/ NotificationManager
  \/ Tick

Spec == Init /\ [][Next]_vars

\* the notification ledger alone
LedgerNext ==
  \/ NotificationManager
  \/ \E to_agent \in LedgerAgents, from_agent \in {"pm"}, n \in NotifInputs :
       add_notification(to_agent, from_agent, n[1], n[2], n[3])
  \/ \E agent \in LedgerAgents : mark_delivered(agent)
  \/ Tick

LedgerSpec == Init /\ [][LedgerNext]_vars

\* the task store, from a store in which task-999 is the one record left
HighInit == InitWith(999)

HighSpec == HighInit /\ [][Next]_vars

\* creations, moves and removals of records
IdNext ==
  \/ \E title \in Titles, description \in Descriptions : create_task(title, description)
  \/ \E n \in CallNums, s \in MoveTargets : move_task(n, s)
  \/ \E path \in Paths(files) : remove_task(path)
  \/ Tick

IdSpec == Init /\ [][IdNext]_vars

\* the task store with moves the process can die in
CrashNext ==
  \/ \E title \in Titles, description \in Descriptions : create_task(title, description)
  \/ \E n \in CallNums, s \in MoveTargets : move_task(n, s)
  \/ \E n \in CallNums, s \in MoveTargets, point \in CrashPoints :
       move_task_crash(n, s, point)
  \/ \E n \in CallNums : FindTask(n)
  \/ Tick

CrashSpec == Init /\ [][CrashNext]_vars

\* ------------------------------------------------------------------- codec
\* the Tasks handed to the codec
CodecDescriptions == { <<"">>, <<"d">>, <<"d", "", "e">> }

CodecMessages ==
  { <<"hi">>, <<"a", "b">>, <<"a", "### b">>,
    <<"see", "### 2026-01-01T00:00 - alice", "x">> }

CodecComments ==
  { [ timestamp |-> Minute(0), agent |-> "bob", message |-> m ] : m \in CodecMessages }

RECURSIVE CodecThreads(_)
CodecThreads(k) ==
  IF k = 0 THEN { <<>> }
  ELSE CodecThreads(k - 1)
       \cup { Append(t, c) : t \in CodecThreads(k - 1), c \in CodecComments }

CodecTasks ==
  { [ NewTask("task-001", "T", d, "P2", tags, 0) EXCEPT
        !.assigned = a, !.subscribers = a, !.prd = prd, !.thread = th ] :
      d \in CodecDescriptions, tags \in { <<>>, <<"ui">> },
      a \in { <<>>, <<"bob">> }, prd \in { None, "docs/prd.md" },
      th \in CodecThreads(MaxThread) }

\* task.to_markdown()
Encode ==
  /\ codec.stage = "task"
  /\ codec' = [ codec EXCEPT !.stage = "document", !.doc = to_markdown(codec.task) ]
  /\ UNCHANGED << files, activity, ledger, now, issued, steps, sent, marks, lastMark,
                  added, raised, work, found, procs >>

\* Task.from_markdown(filepath) of the document written
Decode ==
  /\ codec.stage = "document"
  /\ codec' = [ codec EXCEPT !.stage = "decoded", !.back = from_markdown(codec.doc) ]
  /\ UNCHANGED << files, activity, ledger, now, issued, steps, sent, marks, lastMark,
                  added, raised, work, found, procs >>

CodecInit ==
  /\ InitStore(0)
  /\ \E t \in CodecTasks :
       codec = [ stage |-> "task", task |-> t, doc |-> <<>>, back |-> <<>> ]
  /\ work = NoWork
  /\ found = NoFound
  /\ procs = NoProcs

CodecNext == Encode \/ Decode

CodecSpec == CodecInit /\ [][CodecNext]_vars

\* ---------------------------------------------------------------- find_work
\* the stores find_work is called on: each id has no record or one record,
\* under a status, with or without an agent assigned, its title with or
\* without a mention
Roles == { "pm", "security", "ceo" }

WorkRecords ==
  { [ status |-> s, assigned |-> a, title |-> t ] :
      s \in { "inbox", "in-progress" },
      a \in { <<>>, <<"pm">> },
      t \in { "T", "ask @pm" } }

WorkStores ==
  { [ p \in { <<c[n].status, n>> : n \in { m \in 1..MaxWork : c[m] # <<>> } } |->
        to_markdown([ NewTask(TaskId(p[2]), c[p[2]].title, <<"d">>, "P2", <<>>, 0)
                        EXCEPT !.status = p[1], !.assigned = c[p[2]].assigned ]) ] :
      c \in [ 1..MaxWork -> WorkRecords \cup { <<>> } ] }

\* the orders a directory listing can come in
Orders == { o \in [ 1..MaxWork -> 1..MaxWork ] : \A i, j \in 1..MaxWork : o[i] = o[j] => i = j }

find_work(agent_role, order) ==
  /\ work' = [ stage |-> "found", role |-> agent_role, order |-> order,
               result |-> FindWork(files, agent_role, order) ]
  /\ UNCHANGED << files, activity, ledger, now, issued, steps, sent, marks, lastMark,
                  added, raised, codec, found, procs >>

WorkInit ==
  /\ files \in WorkStores
  /\ activity = <<>>
  /\ ledger = [ exists |-> FALSE, lines |-> <<>> ]
  /\ now = 0
  /\ issued = <<>>
  /\ steps = 0
  /\ sent = 0
  /\ marks = 0
  /\ lastMark = NoMark
  /\ added = [ a \in LedgerAgents |-> <<>> ]
  /\ raised = NoError
  /\ codec = NoCodec
  /\ work = NoWork
  /\ found = NoFound
  /\ procs = NoProcs

WorkNext == \E agent_role \in Roles, order \in Orders : find_work(agent_role, order)

WorkSpec == WorkInit /\ [][WorkNext]_vars

\* ------------------------------------------------------------ concurrency
\* Two processes, each making one call.  A call advances by the steps in
\* which it reads or writes a file; the steps of the two calls interleave.
Procs == { 1, 2 }

\* a call before its first step: the operation, the step it starts at, its
\* arguments, and its local variables (the status directory the scan is at,
\* max_id, the status directory the record was found under, what f.read()
\* has read of the record file so far, the Task as read, what has been read
\* of the ledger, the error it ended with)
Call(op, pc, id, status, agent, message) ==
  [ op |-> op, pc |-> pc, id |-> id, status |-> status, agent |-> agent,
    message |-> message, i |-> 1, max_id |-> 0, path |-> "", doc |-> <<>>,
    task |-> <<>>, content |-> [ exists |-> FALSE, lines |-> <<>> ], error |-> "" ]

\* the calls process p may make: on task-001, or on the ledger for bob
RaceCalls(p) ==
  { Call("create_task", "generate", 0, "", "", <<>>) }
  \cup { Call("move_task", "find", 1, s, "", <<>>) :
           s \in {"inbox", "deployed", "blocked"} }
  \cup { Call("add_comment", "find", 1, "", "alice", <<"c" \o ToString(p)>>) }
  \cup { Call("add_notification", "read_ledger", 0, "", "bob",
              <<"m" \o ToString(p)>>) }
  \cup { Call("mark_delivered", "read_ledger", 0, "", "bob", <<>>) }

\* the title process p passes to create_task
RaceTitle(p) == "T" \o ToString(p)

\* the pieces of a part of a ledger line, str from character k + 1 on: the
\* field names and the parentheses the regular expressions look for, and
\* the text between them
RECURSIVE Cut(_, _)
Cut(str, k) ==
  IF k >= Len(str) THEN (IF str = "" THEN <<>> ELSE <<str>>)
  ELSE LET M == { m \in { "From: ", "Message: ", "Time: ", "Link: ", "Delivered: ",
                          "(", ")" } : StartsWith(From(str, k + 1), m) }
       IN IF M = {} THEN Cut(str, k + 1)
          ELSE (IF k = 0 THEN <<>> ELSE << SubSeq(str, 1, k) >>)
               \o << CHOOSE m \in M : TRUE >>
               \o Cut(From(str, k + Len(CHOOSE m \in M : TRUE) + 1), 0)

\* the number of characters of some lines, each ended by "\n"
RECURSIVE TextSize(_)
TextSize(ls) ==
  IF ls = <<>> THEN 0 ELSE Len(LineText(ls[1])) + 1 + TextSize(Tail(ls))

\* the text of some lines of the ledger from character n on, the part of a
\* line it starts in cut into its pieces
RECURSIVE TailFrom(_, _)
TailFrom(ls, n) ==
  IF ls = <<>> \/ n = 0 THEN ls
  ELSE IF n > Len(LineText(ls[1])) THEN TailFrom(Tail(ls), n - Len(LineText(ls[1])) - 1)
  ELSE LET str == From(LineText(ls[1]), n + 1)
       IN << IF Pieces(str) # <<str>> THEN Pieces(str)
             ELSE IF Cut(str, 0) = <<>> THEN Blank
             ELSE Cut(str, 0) >> \o Tail(ls)

\* f.write(content) on a file opened with 'w' that holds cur by now: the
\* text is written from position 0 over what another writer has written
\* since the file was opened, and what lies beyond its end stays
WriteOver(cur, content) == content \o TailFrom(cur, TextSize(content))

\* create_task: one turn of the loop of _generate_task_id, the listing of
\* one status directory; task_id after the last one
Generate(p) ==
  LET c == procs[p]
      max_id == SetMax({ c.max_id } \cup
                       { FileNum(q[2]) : q \in { r \in Paths(files) : r[1] = statuses[c.i] } })
  IN /\ c.pc = "generate"
     /\ procs' = IF c.i < Len(statuses)
                 THEN [ procs EXCEPT ![p].max_id = max_id, ![p].i = c.i + 1 ]
                 ELSE [ procs EXCEPT ![p].max_id = max_id, ![p].id = max_id + 1,
                                     ![p].path = "inbox", ![p].pc = "open" ]
     /\ UNCHANGED << files, activity, ledger, now, issued, steps, sent, marks, lastMark,
                     added, raised, codec, work, found >>

\* move_task, add_comment: one turn of the loop of _find_task_file, the
\* os.path.exists of one status directory; raise after the last one
Find(p) ==
  LET c == procs[p]
  IN /\ c.pc = "find"
     /\ procs' = IF <<statuses[c.i], c.id>> \in Paths(files)
                 THEN [ procs EXCEPT ![p].path = statuses[c.i], ![p].pc = "read" ]
                 ELSE IF c.i < Len(statuses)
                 THEN [ procs EXCEPT ![p].i = c.i + 1 ]
                 ELSE [ procs EXCEPT ![p].error = "NotFound", ![p].pc = "done" ]
     /\ UNCHANGED << files, activity, ledger, now, issued, steps, sent, marks, lastMark,
                     added, raised, codec, work, found >>

\* move_task, add_comment: one read() system call of the f.read() of
\* Task.from_markdown(filepath).  The first one follows open(), which raises
\* FileNotFoundError when the file is gone, and returns what the file holds;
\* each further one returns what the file holds by then beyond the
\* characters read so far, and f.read() ends with the one that returns
\* nothing.  from_markdown raises ValueError when nothing was read at all.
\* (No request of a read() is smaller than what is left to read, but for
\* requests a writer that writes its file once cannot come between.)
ReadRecord(p) ==
  LET c == procs[p]
      lines(doc) ==
        << <<"---">> >>
        \o [ k \in 1..Len(doc.fm) |-> << doc.fm[k][1] \o ": " \o doc.fm[k][2] >> ]
        \o << <<"---">> >> \o SubSeq(doc.body, 1, Len(doc.body) - 1)
      there == <<c.path, c.id>> \in Paths(files)
      more == IF /\ there
                 /\ IsTaskFormat(files[<<c.path, c.id>>])
                 /\ TextSize(lines(files[<<c.path, c.id>>])) > TextSize(lines(c.doc[1]))
              THEN TailFrom(lines(files[<<c.path, c.id>>]), TextSize(lines(c.doc[1])))
              ELSE <<>>
  IN /\ c.pc = "read"
     /\ procs' =
          IF c.doc = <<>>
          THEN IF ~there
               THEN [ procs EXCEPT ![p].error = "FileNotFound", ![p].pc = "done" ]
               ELSE IF ~IsTaskFormat(files[<<c.path, c.id>>])
               THEN [ procs EXCEPT ![p].error = "InvalidFormat", ![p].pc = "done" ]
               ELSE [ procs EXCEPT ![p].doc = << files[<<c.path, c.id>>] >> ]
          ELSE IF more # <<>>
          THEN [ procs EXCEPT ![p].doc =
                   << [ c.doc[1] EXCEPT !.body =
                          SubSeq(@, 1, Len(@) - 1)
                          \o << Pieces(LineText(more[1])) >> \o Tail(more)
                          \o << Blank >> ] >> ]
          ELSE [ procs EXCEPT ![p].task = << from_markdown(c.doc[1]) >>,
                              ![p].doc = <<>>, ![p].pc = "open" ]
     /\ UNCHANGED << files, activity, ledger, now, issued, steps, sent, marks, lastMark,
                     added, raised, codec, work, found >>

\* open(filepath, 'w'): the file is there and empty
OpenRecord(p) ==
  LET c == procs[p]
      opened == <<IF c.op = "move_task" THEN c.status ELSE c.path, c.id>>
  IN /\ c.pc = "open"
     /\ files' = WriteFile(files, opened, EmptyFile)
     /\ procs' = [ procs EXCEPT ![p].pc = "write" ]
     /\ UNCHANGED << activity, ledger, now, issued, steps, sent, marks, lastMark,
                     added, raised, codec, work, found >>

\* f.write(task.to_markdown()).  The text of a file that os.remove has
\* taken away since it was opened goes nowhere: the write does not create
\* the file again.  Two calls that hold the same record file open write
\* texts of the same length, so the later text replaces the earlier one.
WriteRecord(p) ==
  LET c == procs[p]
      opened == <<IF c.op = "move_task" THEN c.status ELSE c.path, c.id>>
      task == IF c.op = "create_task"
              THEN NewTask(TaskId(c.id), RaceTitle(p), <<"d">>, "P2", <<>>, now)
              ELSE IF c.op = "move_task" THEN Moved(c.task[1], c.status, now)
              ELSE Commented(c.task[1], c.agent, c.message, now)
  IN /\ c.pc = "write"
     /\ files' = IF opened \in Paths(files)
                 THEN WriteFile(files, opened, to_markdown(task))
                 ELSE files
     /\ procs' = [ procs EXCEPT
                     ![p].pc = IF c.op = "move_task" THEN "remove" ELSE "log" ]
     /\ UNCHANGED << activity, ledger, now, issued, steps, sent, marks, lastMark,
                     added, raised, codec, work, found >>

\* move_task: os.remove(old_filepath); raises FileNotFoundError when the
\* file is gone
RemoveOld(p) ==
  LET c == procs[p]
  IN /\ c.pc = "remove"
     /\ IF <<c.path, c.id>> \notin Paths(files)
        THEN /\ procs' = [ procs EXCEPT ![p].error = "FileNotFound", ![p].pc = "done" ]
             /\ UNCHANGED files
        ELSE /\ files' = RemoveFile(files, <<c.path, c.id>>)
             /\ procs' = [ procs EXCEPT ![p].pc = "log" ]
     /\ UNCHANGED << activity, ledger, now, issued, steps, sent, marks, lastMark,
                     added, raised, codec, work, found >>

\* self.log_activity(...)
Log(p) ==
  LET c == procs[p]
  IN /\ c.pc = "log"
     /\ activity' = Append(activity,
          IF c.op = "create_task"
          THEN LogLine(now, "system", "Created task " \o TaskId(c.id) \o ": "
                                      \o RaceTitle(p))
          ELSE IF c.op = "move_task"
          THEN LogLine(now, "system", "Moved " \o TaskId(c.id) \o " from "
                                      \o c.task[1].status \o " to " \o c.status)
          ELSE LogLine(now, c.agent, "Commented on " \o TaskId(c.id)))
     /\ procs' = [ procs EXCEPT
                     ![p].pc = IF c.op = "add_comment" THEN "read_ledger" ELSE "done" ]
     /\ UNCHANGED << files, ledger, now, issued, steps, sent, marks, lastMark,
                     added, raised, codec, work, found >>

\* add_notification, mark_delivered, _notify_subscribers: one read() system
\* call of the f.read() of notifications.md, which returns what the file
\* holds by then beyond the characters read so far; f.read() ends with the
\* one that returns nothing, and the call returns when it has nothing to
\* write.  _notify_subscribers returns before the read when there is nobody
\* to notify.
ReadLedger(p) ==
  LET c == procs[p]
      nobody ==
        /\ c.op = "add_comment"
        /\ SelectSeq(Commented(c.task[1], c.agent, c.message, now).subscribers,
                     LAMBDA a : a # c.agent) = <<>>
      more == IF TextSize(ledger.lines) > TextSize(c.content.lines)
              THEN TailFrom(ledger.lines, TextSize(c.content.lines))
              ELSE <<>>
      content == [ exists |-> TRUE, lines |-> c.content.lines \o more ]
  IN /\ c.pc = "read_ledger"
     /\ procs' =
          IF nobody THEN [ procs EXCEPT ![p].pc = "done" ]
          ELSE IF more # <<>> THEN [ procs EXCEPT ![p].content = content ]
          ELSE [ procs EXCEPT
                   ![p].content = content,
                   ![p].pc = IF /\ c.op = "mark_delivered"
                                /\ NothingToDeliver(content, c.agent)
                             THEN "done" ELSE "open_ledger" ]
     /\ UNCHANGED << files, activity, ledger, now, issued, steps, sent, marks,
                     lastMark, added, raised, codec, work, found >>

\* open(self.notifications_file, 'w'): the file is there and empty
OpenLedger(p) ==
  /\ procs[p].pc = "open_ledger"
  /\ ledger' = [ exists |-> TRUE, lines |-> <<>> ]
  /\ procs' = [ procs EXCEPT ![p].pc = "write_ledger" ]
  /\ UNCHANGED << files, activity, now, issued, steps, sent, marks, lastMark,
                  added, raised, codec, work, found >>

\* f.write(content) to notifications.md: what the call read, with its
\* change
WriteLedger(p) ==
  LET c == procs[p]
      content ==
        IF c.op = "add_notification"
        THEN InsertAfterPending(c.content.lines,
                                Notif(c.agent, "pm", c.message, "", "", now))
        ELSE IF c.op = "mark_delivered"
        THEN MarkDelivered(c.content, c.agent, now).lines
        ELSE NotifySubscribers(c.content,
                               Commented(c.task[1], c.agent, c.message, now),
                               c.agent, c.message, now).lines
  IN /\ c.pc = "write_ledger"
     /\ ledger' = [ exists |-> TRUE, lines |-> WriteOver(ledger.lines, content) ]
     /\ procs' = [ procs EXCEPT ![p].pc = "done" ]
     /\ UNCHANGED << files, activity, now, issued, steps, sent, marks, lastMark,
                     added, raised, codec, work, found >>

\* task-001 in progress with bob assigned and subscribed, a ledger holding
\* one pending entry for bob, and one call per process
RaceInit ==
  /\ files = [ q \in { <<"in-progress", 1>> } |->
                 to_markdown([ NewTask(TaskId(1), "T", <<"d">>, "P2", <<>>, 0) EXCEPT
                                 !.status = "in-progress", !.assigned = <<"bob">>,
                                 !.subscribers = <<"bob">> ]) ]
  /\ activity = <<>>
  /\ ledger = [ exists |-> TRUE,
                lines |-> InsertAfterPending(LedgerNew,
                            Notif("bob", "pm", <<"m0">>, "", "", 0)) ]
  /\ now = 0
  /\ issued = <<1>>
  /\ steps = 0
  /\ sent = 0
  /\ marks = 0
  /\ lastMark = NoMark
  /\ added = [ a \in LedgerAgents |-> <<>> ]
  /\ raised = NoError
  /\ codec = NoCodec
  /\ work = NoWork
  /\ found = NoFound
  /\ procs \in { f \in [ Procs -> UNION { RaceCalls(p) : p \in Procs } ] :
                   \A p \in Procs : f[p] \in RaceCalls(p) }

RaceNext ==
  \E p \in Procs :
    \/ Generate(p)
    \/ Find(p)
    \/ ReadRecord(p)
    \/ OpenRecord(p)
    \/ WriteRecord(p)
    \/ RemoveOld(p)
    \/ Log(p)
    \/ ReadLedger(p)
    \/ OpenLedger(p)
    \/ WriteLedger(p)

RaceSpec == RaceInit /\ [][RaceNext]_vars

\* ------------------------------------------------------------- properties
SeqSet(s) == { s[i] : i \in 1..Len(s) }

Count(s, x) == Cardinality({ i \in 1..Len(s) : s[i] = x })

Reverse(s) == [ i \in 1..Len(s) |-> s[Len(s) + 1 - i] ]

\* C1: for every existing task id and every status s of the enum, s equal to
\* the task's current status included, after move_task(id, s) has returned
\* successfully find_task(id) returns a task whose status is s, and no record
\* of id exists under a status directory other than s.
C1_MoveExclusive ==
  [][ \A n \in CallNums, s \in StatusSet :
        (move_task(n, s) /\ MoveResult(files, n, s) = "ok")
        => /\ FindTaskFile(files', n) # ""
           /\ find_task(files', n).status = s
           /\ \A o \in StatusSet \ {s} : <<o, n>> \notin Paths(files') ]_vars

\* C2: in every state reached by completed create_task, update_task,
\* assign_task, move_task and add_comment calls, at most one record file
\* exists per task id across all status directories.
C2_OneRecordPerId ==
  \A p \in Paths(files), q \in Paths(files) : p[2] = q[2] => p = q

\* C3: in every state reachable through create_task, update_task (with any
\* field updates), assign_task, move_task and add_comment, the record stored
\* at tasks/<s>/<id>.md has its status field equal to s and its id field
\* equal to id.
C3_LocationMatchesRecord ==
  \A p \in Paths(files) :
    /\ from_markdown(files[p]).status = p[1]
    /\ from_markdown(files[p]).id = TaskId(p[2])

\* C4: across create_task calls interleaved with move_task calls and removals
\* of records from the store, no create_task call returns an id that an
\* earlier create_task call returned.
C4_IdsNeverReused ==
  \A i \in 1..Len(issued), j \in 1..Len(issued) : i # j => issued[i] # issued[j]

\* C5: in every state reachable through create_task, update_task (with any
\* field updates), assign_task, move_task and add_comment, every agent in a
\* task's assigned list, and every author of a comment of its thread, is in
\* the task's subscribers list.
C5_AutoSubscribed ==
  \A p \in Paths(files) :
    LET task == from_markdown(files[p])
    IN /\ SeqSet(task.assigned) \subseteq SeqSet(task.subscribers)
       /\ \A i \in 1..Len(task.thread) :
            task.thread[i].agent \in SeqSet(task.subscribers)

\* C6: for every existing task id, agent and message, after
\* add_comment(id, agent, message) has returned successfully the record of id
\* read back by find_task has agent in subscribers exactly once, whether or
\* not agent was subscribed before.
C6_CommentSubscribesOnce ==
  [][ \A n \in CallNums, agent \in Agents, message \in Messages :
        (add_comment(n, agent, message) /\ UpdateResult(files, n) = "ok")
        => /\ FindTaskFile(files', n) # ""
           /\ Count(find_task(files', n).subscribers, agent) = 1 ]_vars

\* C6 has acted on both cases: a stored thread holds two comments of one
\* agent, who was not subscribed before the first and was before the second.
C6_Witness ==
  \E p \in Paths(files) :
    LET task == from_markdown(files[p])
    IN /\ Len(task.thread) = 2
       /\ task.thread[1].agent = task.thread[2].agent
       /\ Count(task.subscribers, task.thread[1].agent) = 1

\* C7: after add_comment(id, a, msg) on a task whose subscriber set is S, from
\* any ledger state (the ledger file not existing yet included),
\* get_notifications(b) returns exactly one more pending notification, which
\* references the task, for every b in S other than a, and
\* get_notifications(a), like that of every agent outside S, returns no new
\* notification.
C7_FanOut ==
  [][ \A n \in CallNums, a \in Agents, message \in Messages :
        (add_comment(n, a, message) /\ UpdateResult(files, n) = "ok")
        => LET S == SeqSet(find_task(files', n).subscribers)
           IN \A b \in Agents :
                LET before == get_notifications(ledger, b)
                    after == get_notifications(ledger', b)
                IN IF b \in S /\ b # a
                   THEN /\ Len(after) = Len(before) + 1
                        /\ "task_id" \in DOMAIN after[1]
                        /\ after[1].task_id = TaskId(n)
                        /\ Tail(after) = before
                   ELSE after = before ]_vars

\* the entries of the Delivered section in document order: whom each is
\* addressed to, its fields, and its Delivered time ("" when it has none)
RECURSIVE DeliveredEntries(_)
DeliveredEntries(sec) ==
  IF sec = <<>> THEN <<>>
  ELSE IF sec[1][1] = "### @"
  THEN LET E == { j \in 2..Len(sec) : sec[j][1] = "### @" }
           stop == IF E = {} THEN Len(sec) + 1 ELSE First(E)
           entry == SubSeq(sec, 1, stop - 1)
           toks == Tokens(entry)
       IN << [ to |-> sec[1][2],
               notif |-> ParseNotif(entry),
               delivered |-> IF FieldAt(toks, "Delivered: ", {"\n"}) = {} THEN ""
                             ELSE FieldValue(toks, "Delivered: ", {"\n"}) ] >>
          \o DeliveredEntries(SubSeq(sec, stop, Len(sec)))
  ELSE DeliveredEntries(Tail(sec))

Delivered(l) == DeliveredEntries(DeliveredContent(l.lines))

\* C8: mark_delivered(agent) removes from the Pending section every entry
\* addressed to agent and only those, and places them, each stamped with a
\* Delivered time and with its original fields, after the entries already in
\* the Delivered section, in their relative order.
C8_DeliverAppends ==
  [][ \A a \in LedgerAgents :
        mark_delivered(a)
        => LET moved == get_notifications(ledger, a)
               stamped == [ i \in 1..Len(moved) |->
                              [ to |-> a, notif |-> moved[i],
                                delivered |-> Minute(now) ] ]
           IN /\ get_notifications(ledger', a) = <<>>
              /\ \A b \in LedgerAgents \ {a} :
                   get_notifications(ledger', b) = get_notifications(ledger, b)
              /\ Delivered(ledger') = Delivered(ledger) \o stamped ]_vars

\* C9: the second of two mark_delivered(agent) calls in a row leaves the
\* ledger as the first left it, and mark_delivered(agent) with no pending
\* entry for agent leaves the ledger unchanged.
C9_DeliverIdempotent ==
  [][ \A a \in LedgerAgents :
        (mark_delivered(a)
         /\ (lastMark.agent = a \/ get_notifications(ledger, a) = <<>>))
        => ledger' = ledger ]_vars

\* C9 has acted: mark_delivered was called twice in a row for an agent whose
\* entries the first call moved to the Delivered section.
C9_Witness ==
  /\ lastMark.times >= 2
  /\ \E i \in 1..Len(Delivered(ledger)) : Delivered(ledger)[i].to = lastMark.agent

\* the dict of a notification as it was added
AsAdded(r) ==
  [ k \in {"from", "message", "time"}
          \cup (IF r.task_id # "" THEN {"task_id"} ELSE {})
          \cup (IF r.link # "" THEN {"link"} ELSE {}) |-> r[k] ]

\* C10: after any sequence of add_notification and mark_delivered calls,
\* get_notifications(agent) returns exactly the notifications added for agent
\* since agent's last mark_delivered, one result per added notification, the
\* most recently added first.
C10_PendingIsAdded ==
  \A a \in LedgerAgents :
    get_notifications(ledger, a)
      = Reverse([ i \in 1..Len(added[a]) |-> AsAdded(added[a][i]) ])

\* the statuses move_task is called with
MoveInputs == MoveTargets \cup {"not-a-status"}

\* no record of number n under any status directory
NoRecord(fs, n) == \A s \in StatusSet : <<s, n>> \notin Paths(fs)

\* C11: move_task(id, s) with s outside the status enum fails with the
\* invalid-status error whether or not a record of id exists, and leaves
\* every task record, the activity log and the ledger unchanged.
C11_InvalidStatus ==
  [][ \A n \in CallNums, s \in MoveInputs \ StatusSet :
        move_task(n, s)
        => /\ raised' = [ error |-> "InvalidStatus", id |-> n ]
           /\ UNCHANGED << files, activity, ledger >> ]_vars

\* C11 has acted: the last call was refused for its status although no
\* record of its id exists, in a store that holds other records.
C11_Witness ==
  /\ raised.error = "InvalidStatus"
  /\ NoRecord(files, raised.id)
  /\ Paths(files) # {}

\* C12: update_task, move_task with a valid status, add_comment and
\* assign_task, called on an id with no record in any status directory, fail
\* with the not-found error and leave every task record, the activity log and
\* the ledger unchanged.
C12_NotFound ==
  [][ \A n \in CallNums :
        (/\ NoRecord(files, n)
         /\ \/ \E updates \in UpdateInputs : update_task(n, updates)
            \/ \E s \in MoveInputs \cap StatusSet : move_task(n, s)
            \/ \E agent \in Agents, message \in Messages : add_comment(n, agent, message)
            \/ \E agent \in Agents : assign_task(n, agent))
        => /\ raised' = [ error |-> "NotFound", id |-> n ]
           /\ UNCHANGED << files, activity, ledger >> ]_vars

\* C12 has acted: the last call found no record of its id, in a store that
\* holds other records and a ledger.
C12_Witness ==
  /\ raised.error = "NotFound"
  /\ NoRecord(files, raised.id)
  /\ Paths(files) # {}
  /\ ledger.exists

\* C13: for every Task t (empty description, absent prd/plan/pr, empty
\* lists, thread messages that span several lines or hold heading-like lines
\* included), from_markdown of the document to_markdown(t) makes is a Task
\* equal to t in every field, the number, order and content of the thread
\* comments included.
C13_RoundTrip ==
  codec.stage = "decoded" => codec.back = codec.task

IsPrefix(s, t) == Len(s) <= Len(t) /\ SubSeq(t, 1, Len(s)) = s

\* the thread find_task(id) reads, empty when it finds no record
ThreadOf(fs, n) == IF FindTaskFile(fs, n) = "" THEN <<>> ELSE find_task(fs, n).thread

\* C14: over create_task, update_task, assign_task, move_task and add_comment
\* calls the thread find_task(id) reads in a state is a prefix (same comments,
\* order and content) of the thread it reads in every later state.
C14_ThreadAppendOnly ==
  [][ \A n \in CallNums : IsPrefix(ThreadOf(files, n), ThreadOf(files', n)) ]_vars

\* the field names an update_task call names
Named(updates) == { updates[i][1] : i \in 1..Len(updates) }

\* C15: update_task(id, updates) on an existing task changes only the fields
\* named in updates and the updated timestamp: unknown names are ignored
\* without error, the record stays in the same status directory, the status
\* of the task is not changed, and every other record, the activity log and
\* the ledger are left unchanged.
C15_UpdateFrame ==
  [][ \A n \in CallNums, u \in UpdateInputs :
        (FindTaskFile(files, n) # "" /\ update_task(n, u))
        => /\ raised' = NoError
           /\ Paths(files') = Paths(files)
           /\ FindTaskFile(files', n) = FindTaskFile(files, n)
           /\ find_task(files', n).status = find_task(files, n).status
           /\ \A f \in TaskFields \ (Named(u) \cup {"updated"}) :
                find_task(files', n)[f] = find_task(files, n)[f]
           /\ \A p \in Paths(files) : p[2] # n => files'[p] = files[p]
           /\ UNCHANGED << activity, ledger >> ]_vars

\* C16: assign_task(id, agent) when agent is already in assigned is a no-op
\* that leaves the stored record, every field including updated, unchanged.
C16_AssignIdempotent ==
  [][ \A n \in CallNums, a \in Agents :
        ( /\ FindTaskFile(files, n) # ""
          /\ a \in SeqSet(find_task(files, n).assigned)
          /\ assign_task(n, a) )
        => find_task(files', n) = find_task(files, n) ]_vars

\* C17: deployed is terminal: once the record of a task is under deployed, no
\* Task Store operation puts it under a different status.
C17_DeployedTerminal ==
  [][ \A n \in CallNums :
        FindTaskFile(files, n) = "deployed"
        => FindTaskFile(files', n) \in {"deployed", ""} ]_vars

\* a call of one of the mutating Task Store operations
Mutating ==
  \/ \E title \in Titles, description \in Descriptions : create_task(title, description)
  \/ \E n \in CallNums, updates \in UpdateInputs : update_task(n, updates)
  \/ \E n \in CallNums, s \in MoveInputs : move_task(n, s)
  \/ \E n \in CallNums, agent \in Agents, message \in Messages :
       add_comment(n, agent, message)
  \/ \E n \in CallNums, agent \in Agents : assign_task(n, agent)

\* C18: every successful create_task, update_task, assign_task, move_task and
\* add_comment appends exactly one entry to the activity log, and no
\* operation changes or removes an entry already in the log.
C18_OneEntryPerOperation ==
  [][ /\ IsPrefix(activity, activity')
      /\ (Mutating /\ raised' = NoError) => Len(activity') = Len(activity) + 1 ]_vars

\* status order, then directory order
Before(p, q, order) ==
  LET si(x) == CHOOSE i \in 1..Len(statuses) : statuses[i] = x[1]
      pos(x) == CHOOSE i \in 1..Len(order) : order[i] = x[2]
  IN si(p) < si(q) \/ (si(p) = si(q) /\ pos(p) < pos(q))

FirstOf(S, order) == CHOOSE p \in S : \A q \in S \ {p} : Before(p, q, order)

AssignedTo(fs, role) ==
  { p \in Paths(fs) : role \in SeqSet(from_markdown(fs[p]).assigned) }

Mentioning(fs, role) ==
  { p \in Paths(fs) :
      \E i \in 1..Len(Content(fs[p])) : Contains(Content(fs[p])[i], "@" \o role) }

RoleStatus ==
  ("pm" :> "inbox") @@ ("architect" :> "in-planning")
  @@ ("engineer" :> "ready-to-build") @@ ("qa" :> "ready-for-testing")
  @@ ("security" :> "in-progress") @@ ("devops" :> "ready-to-deploy")

UnassignedFor(fs, role) ==
  IF role \notin DOMAIN RoleStatus THEN {}
  ELSE { p \in Paths(fs) :
           p[1] = RoleStatus[role] /\ from_markdown(fs[p]).assigned = <<>> }

\* C19: find_work(role) is a strict priority chain: a task with role in
\* assigned, the first in status order then directory order, whatever the
\* mentions and statuses; otherwise the first task whose text contains @role;
\* otherwise the first task with empty assigned in the status directory the
\* role maps to; otherwise none.
C19_PriorityChain ==
  work.stage = "found"
  => LET A == AssignedTo(files, work.role)
         M == Mentioning(files, work.role)
         U == UnassignedFor(files, work.role)
         first(S) == << from_markdown(files[FirstOf(S, work.order)]) >>
     IN work.result = IF A # {} THEN first(A)
                      ELSE IF M # {} THEN first(M)
                      ELSE IF U # {} THEN first(U)
                      ELSE <<>>

\* find_work has returned an assigned task that a task mentioning the role
\* comes before
C19_Witness ==
  /\ work.stage = "found"
  /\ AssignedTo(files, work.role) # {}
  /\ Mentioning(files, work.role) # {}
  /\ FirstOf(AssignedTo(files, work.role) \cup Mentioning(files, work.role), work.order)
       \notin AssignedTo(files, work.role)
  /\ work.result # <<>>

\* C20: move_task writes the record under the new status before it deletes
\* the record under the old status: a crash between the two steps leaves the
\* id with a record under both the old and the new status, and at no crash
\* point of a move is the id left with no record.
C20_CrashKeepsRecord ==
  [][ \A n \in CallNums, s \in MoveTargets :
        FindTaskFile(files, n) # ""
        => /\ move_task_crash(n, s, "written")
              => /\ <<FindTaskFile(files, n), n>> \in Paths(files')
                 /\ <<s, n>> \in Paths(files')
           /\ \A point \in CrashPoints :
                move_task_crash(n, s, point)
                => \E q \in Paths(files') : q[2] = n /\ IsTaskFormat(files'[q]) ]_vars

\* the minute a timestamp of the model stands for
TimeOf(str) == CHOOSE t \in 0..(MaxClock + 1) : Iso(t) = str

\* C23: with a non-decreasing clock every record has updated >= created, and
\* every successful update_task, assign_task, move_task and add_comment sets
\* the updated of its task to the time of the operation.
C23_UpdatedRefreshed ==
  [][ /\ \A p \in Paths(files') :
           TimeOf(from_markdown(files'[p]).updated)
             >= TimeOf(from_markdown(files'[p]).created)
      /\ \A n \in CallNums :
           ( /\ \/ \E u \in UpdateInputs : update_task(n, u)
                \/ \E a \in Agents : assign_task(n, a)
                \/ \E s \in MoveTargets : move_task(n, s)
                \/ \E a \in Agents, m \in Messages : add_comment(n, a, m)
             /\ raised' = NoError
             /\ FindTaskFile(files', n) # "" )
           => find_task(files', n).updated = Iso(now) ]_vars

\* the pipeline order of the statuses, then blocked
PipelineThenBlocked ==
  << "inbox", "in-discovery", "in-planning", "ready-to-build", "in-progress",
     "ready-for-testing", "in-qa", "ready-to-deploy", "deployed", "blocked" >>

\* C24: find_task(id) returns the record in the first status directory, in
\* pipeline order then blocked, that holds a file for id, and None when no
\* directory does; with records under two statuses it is the earlier one.
\* The outcome follows from the store alone: the file of the earliest status
\* is the one decoded, and when it holds no record the decoding error is
\* raised, a file under a later status never being read in its place.
C24_FirstMatchWins ==
  [][ \A n \in CallNums :
        FindTask(n)
        => LET S == { i \in 1..Len(PipelineThenBlocked) :
                        <<PipelineThenBlocked[i], n>> \in Paths(files) }
               first == CHOOSE i \in S : \A j \in S : i <= j
           IN IF S = {}
              THEN raised' = NoError /\ found' = [ id |-> n, result |-> <<>> ]
              ELSE IF IsTaskFormat(files[<<PipelineThenBlocked[first], n>>])
              THEN /\ raised' = NoError
                   /\ found' =
                        [ id |-> n,
                          result |->
                            << from_markdown(files[<<PipelineThenBlocked[first], n>>]) >> ]
              ELSE raised' = Raise("InvalidFormat", n) ]_vars

\* find_task has returned the record of the earlier of two statuses that
\* hold different records of the id
C24_Witness ==
  /\ raised = NoError
  /\ found.result # <<>>
  /\ \E i \in 1..Len(PipelineThenBlocked), j \in 1..Len(PipelineThenBlocked) :
       /\ i < j
       /\ <<PipelineThenBlocked[i], found.id>> \in Paths(files)
       /\ <<PipelineThenBlocked[j], found.id>> \in Paths(files)
       /\ IsTaskFormat(files[<<PipelineThenBlocked[i], found.id>>])
       /\ IsTaskFormat(files[<<PipelineThenBlocked[j], found.id>>])
       /\ files[<<PipelineThenBlocked[i], found.id>>]
            # files[<<PipelineThenBlocked[j], found.id>>]
       /\ found.result = << from_markdown(files[<<PipelineThenBlocked[i], found.id>>]) >>

\* C25: create_task returns the id whose number is one more than the largest
\* number of any record in any status directory, also when that number is 999
\* or more, so that it never returns the id of a record that exists and never
\* overwrites a record.
C25_NextId ==
  [][ (\E title \in Titles, description \in Descriptions :
         create_task(title, description))
      => LET n == issued'[Len(issued')]
         IN /\ n = SetMax({ p[2] : p \in Paths(files) }) + 1
            /\ \A p \in Paths(files) : p[2] # n /\ files'[p] = files[p] ]_vars

\* C28: mark_delivered(a) leaves the notifications of every other agent
\* untouched: get_notifications(b) returns the same list before and after the
\* call for every agent b other than a, and every entry that was in the
\* Delivered section before the call is still there, unchanged, after it.
C28_OthersUntouched ==
  [][ \A a \in LedgerAgents :
        mark_delivered(a)
        => /\ \A b \in LedgerAgents \ {a} :
                get_notifications(ledger', b) = get_notifications(ledger, b)
           /\ \A e \in SeqSet(Delivered(ledger)) :
                Count(Delivered(ledger'), e) >= Count(Delivered(ledger), e) ]_vars

\* mark_delivered has moved the entries of one agent to the Delivered section
\* while another agent has entries pending
C28_Witness ==
  /\ lastMark.times = 1
  /\ \E i \in 1..Len(Delivered(ledger)) : Delivered(ledger)[i].to = lastMark.agent
  /\ \E b \in LedgerAgents \ {lastMark.agent} : get_notifications(ledger, b) # <<>>

\* both calls have ended
BothDone == \A p \in Procs : procs[p].pc = "done"

\* whether the thread of a Task holds a comment with the message
HasComment(task, message) ==
  \E i \in 1..Len(task.thread) : task.thread[i].message = message

\* C21: there is an interleaving of the file-level steps of a move_task and an
\* add_comment on the same task (and of two move_task calls) in which one
\* side's change is dropped though its call returned without error.  In every
\* interleaving the comment of a returned add_comment is missing from the
\* record only when the move wrote a copy it had read before the comment was
\* written, and the record lacks the status of a returned move only when it
\* has the status the other move wrote.
C21_StaleMoveDropsComment ==
  \A p \in Procs : \A q \in Procs \ {p} :
    (BothDone /\ procs[p].error = "" /\ procs[q].op = "move_task"
     /\ FindTaskFile(files, 1) # "")
    => /\ ( /\ procs[p].op = "add_comment" /\ procs[q].error = ""
            /\ ~HasComment(find_task(files, 1), procs[p].message) )
          => ~HasComment(procs[q].task[1], procs[p].message)
       /\ ( /\ procs[p].op = "move_task"
            /\ find_task(files, 1).status # procs[p].status )
          => find_task(files, 1).status = procs[q].status

\* both calls have returned without an error and the record find_task
\* returns lacks the comment that add_comment wrote
C21_Witness ==
  \E p \in Procs, q \in Procs :
    /\ BothDone
    /\ procs[p].op = "add_comment" /\ procs[p].error = ""
    /\ procs[q].op = "move_task" /\ procs[q].error = ""
    /\ FindTaskFile(files, 1) # ""
    /\ find_task(files, 1).status = procs[q].status
    /\ ~HasComment(find_task(files, 1), procs[p].message)

\* whether a notification with the message is in the Pending or in the
\* Delivered section of a ledger, addressed to bob
Present(l, message) ==
  \/ \E i \in 1..Len(get_notifications(l, "bob")) :
       /\ "message" \in DOMAIN get_notifications(l, "bob")[i]
       /\ get_notifications(l, "bob")[i].message = Concat(message)
  \/ /\ l.exists
     /\ \E i \in 1..Len(Delivered(l)) :
          /\ "message" \in DOMAIN Delivered(l)[i].notif
          /\ Delivered(l)[i].notif.message = Concat(message)

\* C22: there is an interleaving of two ledger writers (two add_notification
\* calls, or an add_notification racing a mark_delivered or the fan-out of an
\* add_comment) in which both complete and a notification one of them wrote
\* is in neither section afterwards.  In every interleaving a written
\* notification is missing only when the other writer wrote back a content it
\* had read before the notification was written.
C22_StaleWriterDropsNotification ==
  \A p \in Procs : \A q \in Procs \ {p} :
    ( /\ BothDone
      /\ procs[p].op \in {"add_notification", "add_comment"}
      /\ procs[p].error = ""
      /\ ~Present(ledger, procs[p].message) )
    => /\ procs[q].op \in {"add_notification", "mark_delivered", "add_comment"}
       /\ ~Present(procs[q].content, procs[p].message)

\* both writers have completed and the notification add_notification wrote
\* is in neither section
C22_Witness ==
  \E p \in Procs : \E q \in Procs \ {p} :
    /\ BothDone
    /\ procs[p].op = "add_notification" /\ procs[p].error = ""
    /\ procs[q].error = ""
    /\ ~Present(ledger, procs[p].message)

\* the record files of task n
RecordsOf(fs, n) == { q \in Paths(fs) : q[2] = n }

\* C26: under every interleaving of the steps of two create_task calls (id
\* generation, then file write), the calls return distinct ids and both
\* tasks are stored afterwards, each with the title of its own call.
C26_DistinctIds ==
  \A p \in Procs : \A q \in Procs \ {p} :
    (BothDone /\ procs[p].op = "create_task" /\ procs[q].op = "create_task")
    => /\ procs[p].id # procs[q].id
       /\ <<"inbox", procs[p].id>> \in Paths(files)
       /\ from_markdown(files[<<"inbox", procs[p].id>>]).title = RaceTitle(p)

\* C27: after two interleaved operations on task-001 have both returned (two
\* move_task calls with different targets, or a move_task and an
\* add_comment), exactly one record file exists for the task.
C27_OneRecordFile ==
  \A p \in Procs : \A q \in Procs \ {p} :
    ( /\ BothDone
      /\ procs[p].error = "" /\ procs[q].error = ""
      /\ procs[p].op = "move_task"
      /\ \/ procs[q].op = "add_comment"
         \/ procs[q].op = "move_task" /\ procs[q].status # procs[p].status )
    => Cardinality(RecordsOf(files, 1)) = 1

====
